---- MODULE Spec2Model ----
(***************************************************************************)
(* Model of xmlop-datatypes' validated string types: the XML 1.1 Name and  *)
(* NCName classifiers and validators (strings/name.rs, strings/ncname.rs), *)
(* the borrowed/owned newtype pair generated by define_custom_string!      *)
(* (strings/macros.rs), Qname (strings/qname.rs) and the nom-4             *)
(* recognisers of the three grammars.                                      *)
(*                                                                         *)
(* A str is modelled as the sequence of its Unicode scalar values (code    *)
(* points as integers); byte offsets are computed from each scalar value's *)
(* UTF-8 length, as the standard library does.                             *)
(***************************************************************************)
EXTENDS Integers, Sequences, FiniteSets

\* Longest input string explored.
MaxLen == 4

\* The scalar values inputs are built from:
\*   'a' (start char), '1' (name char, not start), ':' , ' ' (never valid),
\*   U+00E9 (start char, two bytes in UTF-8).
Chars == {97, 49, 58, 32, 233}

\* Every string of at most MaxLen scalar values from Chars.
Strings == UNION {[1..n -> Chars] : n \in 0..MaxLen}

InRange(c, lo, hi) == lo <= c /\ c <= hi

\* ':' as a scalar value.
Colon == 58

----------------------------------------------------------------------------
(* Character classifiers *)

is_name_start_char(c) ==
    \/ c = 58                          \* ':'
    \/ InRange(c, 65, 90)              \* 'A'..='Z'
    \/ c = 95                          \* '_'
    \/ InRange(c, 97, 122)             \* 'a'..='z'
    \/ InRange(c, 192, 214)            \* C0..D6
    \/ InRange(c, 216, 246)            \* D8..F6
    \/ InRange(c, 248, 767)            \* F8..2FF
    \/ InRange(c, 880, 893)            \* 370..37D
    \/ InRange(c, 895, 8191)           \* 37F..1FFF
    \/ InRange(c, 8204, 8205)          \* 200C..200D
    \/ InRange(c, 8304, 8591)          \* 2070..218F
    \/ InRange(c, 11264, 12271)        \* 2C00..2FEF
    \/ InRange(c, 12289, 55295)        \* 3001..D7FF
    \/ InRange(c, 63744, 64975)        \* F900..FDCF
    \/ InRange(c, 65008, 65533)        \* FDF0..FFFD
    \/ InRange(c, 65536, 983039)       \* 10000..EFFFF

is_name_char(c) ==
    \/ is_name_start_char(c)
    \/ c = 45                          \* '-'
    \/ c = 46                          \* '.'
    \/ InRange(c, 48, 57)              \* '0'..='9'
    \/ c = 183                         \* B7
    \/ InRange(c, 768, 879)            \* 0300..036F
    \/ InRange(c, 8255, 8256)          \* 203F..2040

is_ncname_start_char(c) == c /= Colon /\ is_name_start_char(c)

is_ncname_char(c) == c /= Colon /\ is_name_char(c)

----------------------------------------------------------------------------
(* Strings: UTF-8 lengths, byte offsets, search *)

\* char::len_utf8
len_utf8(c) ==
    IF c < 128 THEN 1
    ELSE IF c < 2048 THEN 2
    ELSE IF c < 65536 THEN 3
    ELSE 4

\* Byte offset at which the i-th scalar value (1-based) of s starts.
RECURSIVE ByteOffset(_, _)
ByteOffset(s, i) ==
    IF i <= 1 THEN 0 ELSE ByteOffset(s, i - 1) + len_utf8(s[i - 1])

MinOf(S) == CHOOSE x \in S : \A y \in S : x <= y

\* The scalar values of s from the i-th on (1-based); empty when i > Len(s).
Suffix(s, i) == SubSeq(s, i, Len(s))

\* str::find(':'), as used by validate_ncname_str: the byte offset of the
\* first match.  Only called on strings that contain c.
StrFind_char_index(s, c) == MinOf({i \in 1..Len(s) : s[i] = c}) - 1

StrFind(s, c) == ByteOffset(s, MinOf({i \in 1..Len(s) : s[i] = c}))

StrContains(s, c) == \E i \in 1..Len(s) : s[i] = c

\* String::to_owned / str::to_owned: a fresh buffer with the same contents.
StrToOwned(s) == [i \in 1..Len(s) |-> s[i]]

----------------------------------------------------------------------------
(* NameError and Result *)

Empty == [tag |-> "Empty"]

InvalidNameChar(pos, c) == [tag |-> "InvalidNameChar", pos |-> pos, c |-> c]

Ok(v) == [ok |-> TRUE, val |-> v]

Err(e) == [ok |-> FALSE, err |-> e]

----------------------------------------------------------------------------
(* Validators *)

\* The outcome of chars.find(|&(_, c)| !is_name_char(c)) over the enumerated
\* characters, bad being the (1-based) places of the characters the closure
\* selects: chars().enumerate() numbers the scalar values 0, 1, 2, ..., and
\* the position reported is the first selected character's number.
FindInvalid(s, bad) ==
    IF bad /= {}
    THEN Err(InvalidNameChar(MinOf(bad) - 1, s[MinOf(bad)]))
    ELSE Ok(s)

validate_name_str_start_everywhere(s) ==
    IF Len(s) = 0 THEN Err(Empty)
    ELSE IF ~is_name_start_char(s[1]) THEN Err(InvalidNameChar(0, s[1]))
    ELSE FindInvalid(s, {i \in 2..Len(s) : ~is_name_start_char(s[i])})

validate_name_str_empty_on_bad_head(s) ==
    IF Len(s) = 0 \/ ~is_name_start_char(s[1]) THEN Err(Empty)
    ELSE FindInvalid(s, {i \in 2..Len(s) : ~is_name_char(s[i])})

validate_name_str_head_unchecked(s) ==
    IF Len(s) = 0 THEN Err(Empty)
    ELSE FindInvalid(s, {i \in 1..Len(s) : ~is_name_char(s[i])})

validate_name_str(s) ==
    IF Len(s) = 0 THEN Err(Empty)
    ELSE IF ~is_name_start_char(s[1]) THEN Err(InvalidNameChar(0, s[1]))
    ELSE FindInvalid(s, {i \in 2..Len(s) : ~is_name_char(s[i])})

\* The second stage of validate_ncname_str, on the Name validator's result r:
\* `?` returns its error, then the search for ':'.
ColonCheck(r) ==
    IF ~r.ok THEN r
    ELSE IF StrContains(r.val, Colon)
         THEN Err(InvalidNameChar(StrFind(r.val, Colon), Colon))
         ELSE Ok(r.val)

validate_ncname_str_no_colon_check(s) == validate_name_str(s)

validate_ncname_str_colon_first(s) ==
    IF StrContains(s, Colon)
    THEN Err(InvalidNameChar(StrFind(s, Colon), Colon))
    ELSE validate_name_str(s)

validate_ncname_str(s) == ColonCheck(validate_name_str(s))

----------------------------------------------------------------------------
(* The borrowed / owned string types and Qname *)

\* Absent value: Option::None, or a register that holds nothing yet.
None == [ty |-> "None"]

BorrowedTypes == {"NameStr", "NcnameStr"}

OwnedTypes == {"NameString", "NcnameString"}

OwnedOf(ty) == IF ty = "NameStr" THEN "NameString" ELSE "NcnameString"

BorrowedOf(ty) == IF ty = "NameString" THEN "NameStr" ELSE "NcnameStr"

\* OpaqueTypedef(Unsized)::from_inner_unchecked: wraps without validation.
from_inner_unchecked(ty, s) == [ty |-> ty, text |-> s]

\* OpaqueTypedef(Unsized)::try_from_inner: the type's validator, then wrap.
try_from_inner(ty, r) ==
    IF r.ok THEN Ok(from_inner_unchecked(ty, r.val)) ELSE r

NameStr_new(s) == try_from_inner("NameStr", validate_name_str(s))

NameString_new(s) == try_from_inner("NameString", validate_name_str(s))

NcnameStr_new(s) == try_from_inner("NcnameStr", validate_ncname_str(s))

NcnameString_new(s) == try_from_inner("NcnameString", validate_ncname_str(s))

to_owned_truncating(v) ==
    from_inner_unchecked(OwnedOf(v.ty),
                         SubSeq(v.text, 1, IF Len(v.text) > 1 THEN Len(v.text) - 1 ELSE 1))

\* impl ToOwned for $borrowed
to_owned(v) == from_inner_unchecked(OwnedOf(v.ty), StrToOwned(v.text))

\* $owned::as_name_str: as_ref() through the derived Deref, which wraps the
\* inner buffer with from_str_unchecked_implicitly_unsafe.
as_name_str(b) == from_inner_unchecked(BorrowedOf(b.ty), b.text)

\* Into<NcnameString> for the two NCName types (identity, or From<&NcnameStr>).
into_ncname_string(v) == IF v.ty = "NcnameStr" THEN to_owned(v) ELSE v

Qname_new(prefix, local) == [prefix |-> prefix, local |-> local]

Qname_from_prefix_and_local_swapped(prefix, local) ==
    [prefix |-> local, local |-> prefix]

Qname_from_prefix_and_local(prefix, local) ==
    [prefix |-> prefix, local |-> local]

Qname_from_local(local) == [prefix |-> None, local |-> local]

Qname_prefix(q) == IF q.prefix = None THEN None ELSE as_name_str(q.prefix)

Qname_local(q) == as_name_str(q.local)

Qname_deconstruct(q) == <<q.prefix, q.local>>

\* PartialEq of Option<NcnameString>: both absent, or both present with equal
\* inner strings.
Option_eq(a, b) ==
    IF a = None \/ b = None THEN a = None /\ b = None ELSE a.text = b.text

\* #[derive(PartialEq)] on Qname: field by field.
Qname_eq(a, b) == Option_eq(a.prefix, b.prefix) /\ a.local.text = b.local.text

\* The derived Display of $owned / $borrowed: writes the inner text to the
\* formatter, whose output so far is f.
Display_fmt(v, f) == f \o v.text

\* write!(f, "{}:", prefix): the prefix, then the ':' of the format string.
WritePrefix(prefix, f) == Display_fmt(prefix, f) \o <<Colon>>

Qname_fmt_no_separator(q, f) ==
    Display_fmt(q.local,
                IF q.prefix /= None THEN Display_fmt(q.prefix, f) ELSE f)

\* impl fmt::Display for Qname
Qname_fmt(q, f) ==
    Display_fmt(q.local, IF q.prefix /= None THEN WritePrefix(q.prefix, f) ELSE f)

\* ToString::to_string: Display into an empty buffer.
Qname_to_string(q) == Qname_fmt(q, <<>>)

----------------------------------------------------------------------------
(* nom-4 recognisers over CompleteStr *)

NomOk(rest, v) == [ok |-> TRUE, rest |-> rest, val |-> v]

\* Err::Error(error_position!(i, code))
NomErr(i, code) == [ok |-> FALSE, kind |-> "Error", input |-> i, code |-> code]

\* The panic! of the map closure when the validator rejects the matched text.
NomPanic(e) == [ok |-> FALSE, kind |-> "Panic", err |-> e]

\* peek!(nom::anychar)
PeekAnychar(i) == IF Len(i) = 0 THEN NomErr(i, "Eof") ELSE NomOk(i, i[1])

\* A classifier passed by name to a nom macro.
CharPred(pred, c) ==
    IF pred = "is_name_start_char" THEN is_name_start_char(c)
    ELSE IF pred = "is_name_char" THEN is_name_char(c)
    ELSE IF pred = "is_ncname_start_char" THEN is_ncname_start_char(c)
    ELSE is_ncname_char(c)

\* verify!(.., pred) on the result r of its parser, run on i.
Verify(i, r, pred) ==
    IF ~r.ok THEN r
    ELSE IF CharPred(pred, r.val) THEN r ELSE NomErr(i, "Verify")

\* verify!(peek!(nom::anychar), pred)
VerifyPeek(i, pred) == Verify(i, PeekAnychar(i), pred)

\* split_at_position1 on CompleteStr, n being the number of leading scalar
\* values that satisfy the predicate: an empty match is an error.
SplitAtPosition1(i, n) ==
    IF n = 0 THEN NomErr(i, "TakeWhile1")
    ELSE NomOk(Suffix(i, n + 1), SubSeq(i, 1, n))

\* The number of scalar values before the first of bad, all of i when bad is
\* empty.
MatchLen(i, bad) == IF bad = {} THEN Len(i) ELSE MinOf(bad) - 1

\* take_while1!(pred) on CompleteStr: the longest non-empty prefix whose
\* scalar values all satisfy pred.
TakeWhile1(i, pred) ==
    SplitAtPosition1(i, MatchLen(i, {k \in 1..Len(i) : ~CharPred(pred, i[k])}))

\* The second parser of preceded! / delimited!, take_while1!(pred), run after
\* the first one's result v.
ThenTakeWhile1(v, pred) == IF ~v.ok THEN v ELSE TakeWhile1(v.rest, pred)

\* alt!(eof!() | peek!(nom::anychar)): succeeds at the end of input and before
\* any character, consuming nothing.
EofOrPeek(i) ==
    IF Len(i) = 0 THEN NomOk(i, None)
    ELSE IF PeekAnychar(i).ok THEN NomOk(i, None) ELSE NomErr(i, "Alt")

\* delimited!: the value of the second parser (t), the remainder of the third
\* (e).
DelimitedResult(t, e) == IF ~e.ok THEN e ELSE NomOk(e.rest, t.val)

\* The third parser of NcnameStr's delimited!, run after the second one's
\* result t.
ThenEofOrPeek(t) == IF ~t.ok THEN t ELSE DelimitedResult(t, EofOrPeek(t.rest))

\* char!(':')
CharColon(i) ==
    IF Len(i) = 0 THEN NomErr(i, "Eof")
    ELSE IF i[1] = Colon THEN NomOk(Suffix(i, 2), Colon)
    ELSE NomErr(i, "Char")

\* unwrap_or_else(|e| panic!(..)) on the constructor's result n.
UnwrapOrPanic(rest, n) ==
    IF n.ok THEN NomOk(rest, n.val) ELSE NomPanic(n.err)

\* map!(.., |s| Self::new(*s).unwrap_or_else(|e| panic!(..))), Self being the
\* borrowed type ty.
MapNew(r, ty) ==
    IF ~r.ok THEN r
    ELSE UnwrapOrPanic(r.rest,
                       IF ty = "NameStr" THEN NameStr_new(r.val)
                       ELSE NcnameStr_new(r.val))

\* map!(.., ToOwned::to_owned)
MapToOwned(r) == IF r.ok THEN NomOk(r.rest, to_owned(r.val)) ELSE r

NameStr_nom_parse_no_verify(i) ==
    MapNew(TakeWhile1(i, "is_name_char"), "NameStr")

NameStr_nom_parse(i) ==
    MapNew(ThenTakeWhile1(VerifyPeek(i, "is_name_start_char"), "is_name_char"),
           "NameStr")

NameString_nom_parse(i) == MapToOwned(NameStr_nom_parse(i))

NcnameStr_nom_parse_through_colon(i) ==
    MapNew(ThenEofOrPeek(ThenTakeWhile1(VerifyPeek(i, "is_ncname_start_char"),
                                        "is_name_char")),
           "NcnameStr")

NcnameStr_nom_parse(i) ==
    MapNew(ThenEofOrPeek(ThenTakeWhile1(VerifyPeek(i, "is_ncname_start_char"),
                                        "is_ncname_char")),
           "NcnameStr")

NcnameString_nom_parse(i) == MapToOwned(NcnameStr_nom_parse(i))

\* |(prefix, local)| Self::from_prefix_and_local(prefix, local) on the results
\* p and l of separated_pair!'s first and third parser.
MapPair(p, l) ==
    IF ~l.ok THEN l
    ELSE NomOk(l.rest, Qname_from_prefix_and_local(p.val, l.val))

\* separated_pair! after its separator's result c.
ThenLocal(p, c) ==
    IF ~c.ok THEN c ELSE MapPair(p, NcnameString_nom_parse(c.rest))

\* separated_pair! after its first parser's result p.
ThenColon(p) == IF ~p.ok THEN p ELSE ThenLocal(p, CharColon(p.rest))

\* separated_pair!(NcnameString::nom_parse, char!(':'), NcnameString::nom_parse)
\* mapped through from_prefix_and_local: the first alternative of Qname's alt!.
QnameTwoPart(i) == ThenColon(NcnameString_nom_parse(i))

\* map!(.., Self::from_local) on the result l of its parser.
MapFromLocal(l) == IF ~l.ok THEN l ELSE NomOk(l.rest, Qname_from_local(l.val))

\* map!(NcnameString::nom_parse, Self::from_local): the second alternative.
QnameOnePart(i) == MapFromLocal(NcnameString_nom_parse(i))

\* alt! after its last alternative's result r.
AltLast(i, r) ==
    IF r.ok \/ r.kind /= "Error" THEN r ELSE NomErr(i, "Alt")

\* alt! after its first alternative's result r: an alternative that fails
\* with Err::Error lets the next one run on the original input; any other
\* outcome is returned as it is.
AltFirst(i, r) ==
    IF r.ok \/ r.kind /= "Error" THEN r ELSE AltLast(i, QnameOnePart(i))

Qname_nom_parse_one_part_first(i) ==
    IF QnameOnePart(i).ok THEN QnameOnePart(i) ELSE AltLast(i, QnameTwoPart(i))

Qname_nom_parse(i) == AltFirst(i, QnameTwoPart(i))

----------------------------------------------------------------------------
(* The program: one text buffer, the calls made on it and the values held *)

VARIABLES
    input,    \* the text handed to the constructors and recognisers
    result,   \* the last call: its name, its argument where it has one, and what it returned
    val,      \* the Name / NCName value currently held (None before the first)
    qname     \* the Qname currently held (None before the first)

vars == <<input, result, val, qname>>

Init ==
    /\ input \in Strings
    /\ result = [op |-> "none"]
    /\ val = None
    /\ qname = None

\* The validating constructors, applied to the whole input; the value is kept
\* when validation succeeds.
NameStrNew ==
    \E r \in {NameStr_new(input)} :
        /\ result' = [op |-> "NameStr::new", ret |-> r]
        /\ val' = IF r.ok THEN r.val ELSE val
        /\ UNCHANGED <<input, qname>>

NameStringNew ==
    \E r \in {NameString_new(input)} :
        /\ result' = [op |-> "NameString::new", ret |-> r]
        /\ val' = IF r.ok THEN r.val ELSE val
        /\ UNCHANGED <<input, qname>>

NcnameStrNew ==
    \E r \in {NcnameStr_new(input)} :
        /\ result' = [op |-> "NcnameStr::new", ret |-> r]
        /\ val' = IF r.ok THEN r.val ELSE val
        /\ UNCHANGED <<input, qname>>

NcnameStringNew ==
    \E r \in {NcnameString_new(input)} :
        /\ result' = [op |-> "NcnameString::new", ret |-> r]
        /\ val' = IF r.ok THEN r.val ELSE val
        /\ UNCHANGED <<input, qname>>

\* The Name / NCName recognisers, applied to the input; the matched value is
\* kept.
NameStrNomParse ==
    \E r \in {NameStr_nom_parse(input)} :
        /\ result' = [op |-> "NameStr::nom_parse", ret |-> r]
        /\ val' = IF r.ok THEN r.val ELSE val
        /\ UNCHANGED <<input, qname>>

NameStringNomParse ==
    \E r \in {NameString_nom_parse(input)} :
        /\ result' = [op |-> "NameString::nom_parse", ret |-> r]
        /\ val' = IF r.ok THEN r.val ELSE val
        /\ UNCHANGED <<input, qname>>

NcnameStrNomParse ==
    \E r \in {NcnameStr_nom_parse(input)} :
        /\ result' = [op |-> "NcnameStr::nom_parse", ret |-> r]
        /\ val' = IF r.ok THEN r.val ELSE val
        /\ UNCHANGED <<input, qname>>

NcnameStringNomParse ==
    \E r \in {NcnameString_nom_parse(input)} :
        /\ result' = [op |-> "NcnameString::nom_parse", ret |-> r]
        /\ val' = IF r.ok THEN r.val ELSE val
        /\ UNCHANGED <<input, qname>>

\* The Qname recogniser, applied to the input; the matched Qname is kept.
QnameNomParse ==
    \E r \in {Qname_nom_parse(input)} :
        /\ result' = [op |-> "Qname::nom_parse", ret |-> r]
        /\ qname' = IF r.ok THEN r.val ELSE qname
        /\ UNCHANGED <<input, val>>

ToOwned ==
    /\ val.ty \in BorrowedTypes
    /\ val' = to_owned(val)
    /\ result' = [op |-> "to_owned", arg |-> val, ret |-> val']
    /\ UNCHANGED <<input, qname>>

AsNameStr ==
    /\ val.ty \in OwnedTypes
    /\ val' = as_name_str(val)
    /\ result' = [op |-> "as_name_str", arg |-> val, ret |-> val']
    /\ UNCHANGED <<input, qname>>

\* Qname::from_local on the held NCName value.
QnameFromLocal ==
    /\ val.ty \in {"NcnameStr", "NcnameString"}
    /\ qname' = Qname_from_local(into_ncname_string(val))
    /\ result' = [op |-> "Qname::from_local", ret |-> qname']
    /\ UNCHANGED <<input, val>>

\* Qname::from_prefix_and_local on two NCNames constructed from the two
\* halves of the input, split at any position.
QnameFromPrefixAndLocal ==
    \E k \in 1..(Len(input) - 1) :
        \E rp \in {NcnameString_new(SubSeq(input, 1, k))},
           rl \in {NcnameString_new(Suffix(input, k + 1))} :
            /\ rp.ok
            /\ rl.ok
            /\ qname' = Qname_from_prefix_and_local(rp.val, rl.val)
            /\ result' = [op |-> "Qname::from_prefix_and_local", ret |-> qname']
            /\ UNCHANGED <<input, val>>

\* Qname::prefix: the borrowed prefix becomes the held value when there is one.
QnamePrefix ==
    /\ qname /= None
    /\ \E r \in {Qname_prefix(qname)} :
           /\ result' = [op |-> "Qname::prefix", ret |-> r]
           /\ val' = IF r /= None THEN r ELSE val
    /\ UNCHANGED <<input, qname>>

QnameLocal ==
    /\ qname /= None
    /\ result' = [op |-> "Qname::local", ret |-> Qname_local(qname)]
    /\ val' = Qname_local(qname)
    /\ UNCHANGED <<input, qname>>

\* Qname::deconstruct consumes the Qname; its local part becomes the held value.
QnameDeconstruct ==
    /\ qname /= None
    /\ result' = [op |-> "Qname::deconstruct", ret |-> Qname_deconstruct(qname)]
    /\ val' = Qname_deconstruct(qname)[2]
    /\ qname' = None
    /\ UNCHANGED input

\* Qname::new on the parts a deconstruct has just returned.
QnameNew ==
    /\ result.op = "Qname::deconstruct"
    /\ qname' = Qname_new(result.ret[1], result.ret[2])
    /\ result' = [op |-> "Qname::new", ret |-> qname']
    /\ UNCHANGED <<input, val>>

\* Display of the held Qname (to_string).
QnameDisplay ==
    /\ qname /= None
    /\ result' = [op |-> "Qname::to_string", arg |-> qname,
                  ret |-> Qname_to_string(qname)]
    /\ UNCHANGED <<input, val, qname>>

\* Qname::nom_parse applied to the Display text of the held Qname.
QnameReparse ==
    /\ qname /= None
    /\ result' = [op |-> "Qname::nom_parse(to_string)", arg |-> qname,
                  ret |-> Qname_nom_parse(Qname_to_string(qname))]
    /\ UNCHANGED <<input, val, qname>>

\* == between the held Qname and one constructed from the input: from_local
\* on the whole input (k = 0), or from_prefix_and_local on its two halves
\* split at k.  The two Display texts are kept with the answer.
QnameEq ==
    /\ qname /= None
    /\ \E k \in 0..(Len(input) - 1) :
        \E rp \in {IF k = 0 THEN Ok(None) ELSE NcnameString_new(SubSeq(input, 1, k))},
           rl \in {NcnameString_new(Suffix(input, k + 1))} :
            /\ rp.ok
            /\ rl.ok
            /\ \E other \in {IF k = 0 THEN Qname_from_local(rl.val)
                             ELSE Qname_from_prefix_and_local(rp.val, rl.val)} :
                   result' = [op |-> "Qname::eq", arg |-> <<qname, other>>,
                              ret |-> Qname_eq(qname, other),
                              texts |-> <<Qname_to_string(qname),
                                          Qname_to_string(other)>>]
    /\ UNCHANGED <<input, val, qname>>

Next ==
    \/ NameStrNew
    \/ NameStringNew
    \/ NcnameStrNew
    \/ NcnameStringNew
    \/ NameStrNomParse
    \/ NameStringNomParse
    \/ NcnameStrNomParse
    \/ NcnameStringNomParse
    \/ QnameNomParse
    \/ ToOwned
    \/ AsNameStr
    \/ QnameFromLocal
    \/ QnameFromPrefixAndLocal
    \/ QnamePrefix
    \/ QnameLocal
    \/ QnameDeconstruct
    \/ QnameNew
    \/ QnameDisplay
    \/ QnameReparse
    \/ QnameEq

Spec == Init /\ [][Next]_vars

----------------------------------------------------------------------------
(* The grammars, stated directly on the scalar values *)

IsName(s) ==
    /\ Len(s) > 0
    /\ is_name_start_char(s[1])
    /\ \A i \in 2..Len(s) : is_name_char(s[i])

IsNcname(s) ==
    /\ Len(s) > 0
    /\ is_ncname_start_char(s[1])
    /\ \A i \in 2..Len(s) : is_ncname_char(s[i])

NameConstructors == {"NameStr::new", "NameString::new"}

NcnameConstructors == {"NcnameStr::new", "NcnameString::new"}

\* The type a constructor returns.
ConstructedType ==
    [o \in NameConstructors \cup NcnameConstructors |->
        IF o = "NameStr::new" THEN "NameStr"
        ELSE IF o = "NameString::new" THEN "NameString"
        ELSE IF o = "NcnameStr::new" THEN "NcnameStr"
        ELSE "NcnameString"]

\* s has a non-first scalar value failing is_name_char, after a valid start.
HasBadNameChar(s) ==
    /\ Len(s) > 0
    /\ is_name_start_char(s[1])
    /\ \E i \in 2..Len(s) : ~is_name_char(s[i])

FirstBadNameChar(s) == MinOf({i \in 2..Len(s) : ~is_name_char(s[i])})

FirstColon(s) == MinOf({i \in 1..Len(s) : s[i] = Colon})

----------------------------------------------------------------------------
(* Claims *)

\* C1: when a non-first character of the input is the first to fail
\* is_name_char (the first character being a start character), NameStr::new /
\* NameString::new fail with InvalidNameChar(pos, c), c that character and pos
\* its byte offset in the input.
C1_InvalidCharAtByteOffset ==
    (result.op \in NameConstructors /\ HasBadNameChar(input)) =>
        result.ret = Err(InvalidNameChar(ByteOffset(input, FirstBadNameChar(input)),
                                         input[FirstBadNameChar(input)]))

\* C2: when the input starts with a valid NCName followed by ':' and what
\* follows the ':' is not an NCName, Qname::nom_parse fails.
C2_IncompleteTwoPartFails ==
    (/\ result.op = "Qname::nom_parse"
     /\ \E k \in 1..(Len(input) - 1) :
            /\ IsNcname(SubSeq(input, 1, k))
            /\ input[k + 1] = Colon
            /\ (k + 2 > Len(input) \/ ~is_ncname_start_char(input[k + 2])))
    => ~result.ret.ok

\* C3: on an input that satisfies the Name grammar the Name constructors
\* succeed with the input unchanged, and on an input that satisfies the
\* NCName grammar the NCName constructors succeed with the input unchanged.
C3_ValidInputAccepted ==
    /\ (result.op \in NameConstructors /\ IsName(input)) =>
           result.ret = Ok([ty |-> ConstructedType[result.op], text |-> input])
    /\ (result.op \in NcnameConstructors /\ IsNcname(input)) =>
           result.ret = Ok([ty |-> ConstructedType[result.op], text |-> input])

C3_Witness ==
    /\ result.op = "NcnameString::new"
    /\ IsNcname(input)
    /\ Len(input) >= 2
    /\ ~is_name_start_char(input[2])

\* C4: every held NameStr / NameString satisfies the Name grammar, every held
\* NcnameStr / NcnameString and both parts of every held Qname satisfy the
\* NCName grammar.
C4_ValuesSatisfyGrammar ==
    /\ val /= None =>
           IF val.ty \in {"NameStr", "NameString"}
           THEN IsName(val.text)
           ELSE val.ty \in {"NcnameStr", "NcnameString"} /\ IsNcname(val.text)
    /\ qname /= None =>
           /\ qname.local.ty = "NcnameString"
           /\ IsNcname(qname.local.text)
           /\ qname.prefix /= None =>
                  /\ qname.prefix.ty = "NcnameString"
                  /\ IsNcname(qname.prefix.text)

C4_Witness ==
    /\ val /= None
    /\ val.ty = "NameString"
    /\ StrContains(val.text, Colon)
    /\ qname /= None
    /\ qname.prefix /= None
    /\ result.op = "NameString::nom_parse"

\* C5: on an input that passes Name validation and contains ':', the NCName
\* constructors fail with InvalidNameChar(pos, ':'), pos the byte offset of
\* the first ':'.
C5_ColonRejectedAtFirstColon ==
    (result.op \in NcnameConstructors /\ IsName(input) /\ StrContains(input, Colon)) =>
        result.ret = Err(InvalidNameChar(ByteOffset(input, FirstColon(input)), Colon))

C5_Witness ==
    /\ result.op = "NcnameStr::new"
    /\ IsName(input)
    /\ StrContains(input, Colon)
    /\ ByteOffset(input, FirstColon(input)) > FirstColon(input) - 1

\* C6 as stated: a non-empty input whose first character fails the grammar's
\* start predicate is rejected with InvalidNameChar(0, firstChar), whatever
\* follows (is_name_start_char for Name, is_ncname_start_char for NCName).
C6_Original ==
    /\ (result.op \in NameConstructors /\ Len(input) > 0
            /\ ~is_name_start_char(input[1])) =>
           result.ret = Err(InvalidNameChar(0, input[1]))
    /\ (result.op \in NcnameConstructors /\ Len(input) > 0
            /\ ~is_ncname_start_char(input[1])) =>
           result.ret = Err(InvalidNameChar(0, input[1]))

\* C6 amended: a non-empty input whose first character fails
\* is_name_start_char is rejected by the Name and the NCName constructors with
\* InvalidNameChar(0, firstChar), whatever follows; an input whose first
\* character is ':' is rejected by the NCName constructors with
\* InvalidNameChar(0, ':') when it passes Name validation.
C6_BadStartRejectedAtZero ==
    /\ (result.op \in NameConstructors \cup NcnameConstructors /\ Len(input) > 0
            /\ ~is_name_start_char(input[1])) =>
           result.ret = Err(InvalidNameChar(0, input[1]))
    /\ (result.op \in NcnameConstructors /\ Len(input) > 0
            /\ input[1] = Colon /\ IsName(input)) =>
           result.ret = Err(InvalidNameChar(0, Colon))

C6_Witness ==
    /\ result.op = "NcnameString::new"
    /\ Len(input) >= 2
    /\ ~is_name_start_char(input[1])
    /\ is_name_char(input[1])
    /\ ~result.ret.ok

\* C7: the constructors fail with Empty on the empty input and only on it;
\* every failure on a non-empty input is InvalidNameChar.
C7_EmptyIffEmptyInput ==
    result.op \in NameConstructors \cup NcnameConstructors =>
        /\ input = <<>> => result.ret = Err(Empty)
        /\ (~result.ret.ok /\ input /= <<>>) =>
               result.ret.err.tag = "InvalidNameChar"

C7_Witness ==
    /\ result.op \in NcnameConstructors
    /\ input = <<>>
    /\ result.ret = Err(Empty)

\* C8: when Qname::nom_parse succeeds with a prefix, the input is prefix, ':',
\* local, remainder, with prefix and local the NCNames matched before and
\* after the ':'; when it succeeds without one, the input is local, remainder,
\* with local the matched NCName.  A matched NCName ends where the input ends
\* or where the next character is not an NCName character.
C8_QnameParseParts ==
    (result.op = "Qname::nom_parse" /\ result.ret.ok) =>
        LET q    == result.ret.val
            rest == result.ret.rest
        IN  /\ IsNcname(q.local.text)
            /\ q.local.ty = "NcnameString"
            /\ IF q.prefix /= None
               THEN /\ q.prefix.ty = "NcnameString"
                    /\ IsNcname(q.prefix.text)
                    /\ input = q.prefix.text \o <<Colon>> \o q.local.text \o rest
               ELSE input = q.local.text \o rest
            /\ rest = <<>> \/ ~is_ncname_char(rest[1])

C8_Witness ==
    /\ result.op = "Qname::nom_parse"
    /\ result.ret.ok
    /\ result.ret.val.prefix /= None
    /\ result.ret.val.prefix.text /= result.ret.val.local.text
    /\ result.ret.rest /= <<>>

\* C9: when the first character of the input satisfies the start predicate,
\* NameStr::nom_parse / NcnameStr::nom_parse succeed, the matched value is the
\* longest prefix of the input whose characters all satisfy the continuation
\* predicate, and matched text followed by the remainder is the input;
\* otherwise they fail with an error that refers to the whole input.
C9_RecogniserLongestMatch ==
    /\ result.op = "NameStr::nom_parse" =>
           IF Len(input) > 0 /\ is_name_start_char(input[1])
           THEN /\ result.ret.ok
                /\ result.ret.val.ty = "NameStr"
                /\ result.ret.val.text \o result.ret.rest = input
                /\ \A i \in 1..Len(result.ret.val.text) :
                       is_name_char(result.ret.val.text[i])
                /\ result.ret.rest = <<>> \/ ~is_name_char(result.ret.rest[1])
           ELSE /\ ~result.ret.ok
                /\ result.ret.kind = "Error"
                /\ result.ret.input = input
    /\ result.op = "NcnameStr::nom_parse" =>
           IF Len(input) > 0 /\ is_ncname_start_char(input[1])
           THEN /\ result.ret.ok
                /\ result.ret.val.ty = "NcnameStr"
                /\ result.ret.val.text \o result.ret.rest = input
                /\ \A i \in 1..Len(result.ret.val.text) :
                       is_ncname_char(result.ret.val.text[i])
                /\ result.ret.rest = <<>> \/ ~is_ncname_char(result.ret.rest[1])
           ELSE /\ ~result.ret.ok
                /\ result.ret.kind = "Error"
                /\ result.ret.input = input

C9_Witness ==
    /\ result.op = "NcnameStr::nom_parse"
    /\ result.ret.ok
    /\ Len(result.ret.val.text) >= 2
    /\ result.ret.rest /= <<>>
    /\ result.ret.rest[1] = Colon

\* C10: the owned copy of a borrowed value, viewed again, is that borrowed
\* value (same type, same text); the view of an owned value, copied again, is
\* that owned value.
C10_BorrowedOwnedRoundTrip ==
    /\ result.op = "to_owned" => as_name_str(result.ret) = result.arg
    /\ result.op = "as_name_str" => to_owned(result.ret) = result.arg

C10_Witness ==
    /\ result.op = "as_name_str"
    /\ result.arg.ty = "NcnameString"
    /\ Len(result.arg.text) >= 2

\* C11: the Display text of a Qname with a prefix is the prefix's text, one
\* ':', the local part's text and nothing else; without a prefix it is the
\* local part's text and nothing else.
C11_DisplayIsConcatenation ==
    result.op = "Qname::to_string" =>
        LET q   == result.arg
            out == result.ret
            np  == IF q.prefix = None THEN 0 ELSE Len(q.prefix.text) + 1
        IN  /\ Len(out) = np + Len(q.local.text)
            /\ q.prefix /= None =>
                   /\ \A i \in 1..Len(q.prefix.text) : out[i] = q.prefix.text[i]
                   /\ out[np] = Colon
            /\ \A i \in 1..Len(q.local.text) : out[np + i] = q.local.text[i]

C11_Witness ==
    /\ result.op = "Qname::to_string"
    /\ result.arg.prefix /= None
    /\ result.arg.prefix.text /= result.arg.local.text
    /\ Len(result.ret) = 5

\* C12: on an input the Name validator rejects, the NCName constructors
\* fail with the Name validator's error (same variant, position and
\* character), also when a ':' comes before the offending character; they
\* report ':' as the invalid character only on inputs that satisfy the Name
\* grammar.
C12_NameErrorsBeforeColon ==
    result.op \in NcnameConstructors =>
        /\ ~IsName(input) =>
               /\ ~result.ret.ok
               /\ result.ret = validate_name_str(input)
               /\ result.ret.err /= Empty => result.ret.err.c /= Colon
        /\ (~result.ret.ok /\ result.ret.err /= Empty /\ result.ret.err.c = Colon) =>
               IsName(input)

C12_Witness ==
    /\ result.op = "NcnameStr::new"
    /\ HasBadNameChar(input)
    /\ StrContains(input, Colon)
    /\ FirstColon(input) < FirstBadNameChar(input)
    /\ FirstColon(input) > 1

\* C13: the recognisers never reach the panic of their map closure: a
\* failure is a nom error, the text a recogniser matches passes the validator
\* of its grammar, and the validator accepts the input exactly when the
\* recogniser matches all of it, leaving an empty remainder.
C13_RecogniserAgreesWithValidator ==
    /\ result.op \in {"NameStr::nom_parse", "NameString::nom_parse"} =>
           /\ ~result.ret.ok => result.ret.kind = "Error"
           /\ result.ret.ok =>
                  validate_name_str(result.ret.val.text) = Ok(result.ret.val.text)
           /\ validate_name_str(input).ok <=>
                  (result.ret.ok /\ result.ret.rest = <<>>)
    /\ result.op \in {"NcnameStr::nom_parse", "NcnameString::nom_parse"} =>
           /\ ~result.ret.ok => result.ret.kind = "Error"
           /\ result.ret.ok =>
                  validate_ncname_str(result.ret.val.text) = Ok(result.ret.val.text)
           /\ validate_ncname_str(input).ok <=>
                  (result.ret.ok /\ result.ret.rest = <<>>)

C13_Witness ==
    /\ result.op = "NameStr::nom_parse"
    /\ result.ret.ok
    /\ StrContains(result.ret.val.text, Colon)
    /\ result.ret.rest /= <<>>
    /\ ~validate_name_str(input).ok

\* C14: Qname::nom_parse on the Display text of a Qname succeeds with an
\* empty remainder and returns a Qname with the same prefix and local part;
\* two Qnames are equal exactly when their Display texts are equal.
C14_DisplayParseRoundTrip ==
    /\ result.op = "Qname::nom_parse(to_string)" =>
           /\ result.ret.ok
           /\ result.ret.rest = <<>>
           /\ result.ret.val = result.arg
    /\ result.op = "Qname::eq" =>
           (result.ret <=> result.texts[1] = result.texts[2])

C14_Witness ==
    /\ result.op = "Qname::nom_parse(to_string)"
    /\ result.ret.ok
    /\ result.arg.prefix /= None
    /\ result.arg.prefix.text /= result.arg.local.text
    /\ Len(result.arg.local.text) >= 2

====
